---- MODULE Spec2Model ----
(***************************************************************************)
(* Position-level ball-joint constraints of rapier, batched over SIMD      *)
(* lanes (WBallPositionConstraint, WBallPositionGroundConstraint), and the *)
(* contact-manifold data model (ContactManifoldData).                      *)
(*                                                                         *)
(* The model is of the dim2 build.  Real numbers are exact rationals       *)
(* <<numerator, denominator>> in lowest terms with a positive denominator; *)
(* floating-point rounding is not modelled.  A SimdReal is a function from *)
(* Lanes to rationals and every SIMD operation acts lane by lane.          *)
(***************************************************************************)
EXTENDS Integers, Sequences, FiniteSets, TLC

(***************************************************************************)
(* Bounds of the model.                                                    *)
(***************************************************************************)
\* Number of SIMD lanes in one batch (SIMD_WIDTH).
W == 2
\* Number of solve calls explored on one position buffer.
MaxSolves == 2
\* Largest numerator or denominator a pose of the buffer may hold for a
\* further solve call to be explored.
MaxMagnitude == 20
\* Largest rigid-body handle and largest number of solver contacts explored
\* in the contact-manifold model.
MaxHandle == 3
MaxContacts == 2
\* Largest numerator or denominator of an error vector whose squared norm
\* is compared with another.
MaxComparable == 12

Lanes == 0 .. (W - 1)
\* The position buffer holds one pose per active body; one more than a batch
\* can touch, so that some slot is always outside the batch.
NumBodies == 2 * W + 1
Offsets == 0 .. (NumBodies - 1)

(***************************************************************************)
(* Real: exact rational arithmetic.                                        *)
(***************************************************************************)
Abs(n) == IF n < 0 THEN -n ELSE n

RECURSIVE Gcd(_, _)
Gcd(a, b) == IF b = 0 THEN a ELSE Gcd(b, a % b)

Rat(n, d) ==
    IF n = 0 THEN <<0, 1>>
    ELSE LET g == Gcd(Abs(n), Abs(d))
             s == IF d < 0 THEN -1 ELSE 1
         IN  <<(s * n) \div g, (s * d) \div g>>

R(n) == <<n, 1>>

RAdd(a, b) ==
    LET g == Gcd(a[2], b[2])
    IN  Rat(a[1] * (b[2] \div g) + b[1] * (a[2] \div g), (a[2] \div g) * b[2])
RNeg(a) == <<-a[1], a[2]>>
RSub(a, b) == RAdd(a, RNeg(b))
RMul(a, b) ==
    LET x == Rat(a[1], b[2])
        y == Rat(b[1], a[2])
    IN  <<x[1] * y[1], x[2] * y[2]>>
\* Division by zero does not occur: every lane explored has a positive
\* definite effective mass (see RigidBodies).
RDiv(a, b) == RMul(a, Rat(b[2], b[1]))
RLeq(a, b) == a[1] * b[2] <= b[1] * a[2]
RLt(a, b) == a[1] * b[2] < b[1] * a[2]

(***************************************************************************)
(* Vector<Real>, Point<Real>, Rotation<Real> (a unit complex number) and   *)
(* Isometry<Real> of the dim2 build.                                       *)
(***************************************************************************)
Vec(x, y) == [x |-> x, y |-> y]
VAdd(u, v) == Vec(RAdd(u.x, v.x), RAdd(u.y, v.y))
VSub(u, v) == Vec(RSub(u.x, v.x), RSub(u.y, v.y))
VNeg(u) == Vec(RNeg(u.x), RNeg(u.y))
VScale(u, s) == Vec(RMul(u.x, s), RMul(u.y, s))
NormSquared(u) == RAdd(RMul(u.x, u.x), RMul(u.y, u.y))
VZero == Vec(R(0), R(0))

Rot(re, im) == [re |-> re, im |-> im]
RotIdentity == Rot(R(1), R(0))
\* Rotation * Rotation: the product of two unit complex numbers.
RotMul(a, b) ==
    Rot(RSub(RMul(a.re, b.re), RMul(a.im, b.im)),
        RAdd(RMul(a.re, b.im), RMul(a.im, b.re)))
\* Rotation * Vector.
RotApply(r, v) ==
    Vec(RSub(RMul(r.re, v.x), RMul(r.im, v.y)),
        RAdd(RMul(r.im, v.x), RMul(r.re, v.y)))
\* Rotation::new(angle).  The code builds (cos angle, sin angle); no rational
\* angle but 0 has rational cosine and sine, so the rotation is modelled by
\* the rational unit complex number of half-angle tangent angle/2.  It is
\* the identity exactly when angle = 0, has unit norm, turns in the sense of
\* angle and agrees with (cos, sin) to second order in angle.
RotationNew(angle) ==
    LET t == RMul(angle, <<1, 2>>)
        tt == RMul(t, t)
        den == RAdd(R(1), tt)
    IN  Rot(RDiv(RSub(R(1), tt), den), RDiv(RMul(R(2), t), den))

Iso(rot, tr) == [rotation |-> rot, translation |-> tr]
\* Isometry * Point.
IsoApply(p, pt) == VAdd(RotApply(p.rotation, pt), p.translation)

\* WCrossMatrix::gcross_matrix of a 2D vector.
GCrossMatrix(v) == Vec(RNeg(v.y), v.x)
\* WCross::gcross of two 2D vectors: the scalar cross product.
GCross(u, v) == RSub(RMul(u.x, v.y), RMul(u.y, v.x))

\* SdpMatrix (symmetric 2x2), SdpMatrix::inverse_unchecked and SdpMatrix * Vector.
SdpMatrix(m11, m12, m22) == [m11 |-> m11, m12 |-> m12, m22 |-> m22]
InverseUnchecked(m) ==
    LET determinant == RSub(RMul(m.m11, m.m22), RMul(m.m12, m.m12))
    IN  SdpMatrix(RDiv(m.m22, determinant),
                  RDiv(RNeg(m.m12), determinant),
                  RDiv(m.m11, determinant))
SdpMul(m, v) ==
    Vec(RAdd(RMul(m.m11, v.x), RMul(m.m12, v.y)),
        RAdd(RMul(m.m12, v.x), RMul(m.m22, v.y)))

\* AngularInertia::squared and AngularInertia::transform_vector (a scalar in 2D).
Squared(i) == RMul(i, i)
TransformVector(i, a) == RMul(a, i)

(***************************************************************************)
(* WBallPositionConstraint.                                                *)
(***************************************************************************)
\* array![|ii| f(ii); SIMD_WIDTH] is the function [ii \in Lanes |-> f(ii)].
WBallPositionConstraint_from_params(rbs1, rbs2, cparams) ==
    LET local_com1(ii) == rbs1[ii].local_com
        local_com2(ii) == rbs2[ii].local_com
        im1(ii) == rbs1[ii].inv_mass
        im2(ii) == rbs2[ii].inv_mass
        ii1(ii) == Squared(rbs1[ii].world_inv_inertia_sqrt)
        ii2(ii) == Squared(rbs2[ii].world_inv_inertia_sqrt)
        local_anchor1(ii) == cparams[ii].local_anchor1
        local_anchor2(ii) == cparams[ii].local_anchor2
        position1(ii) == rbs1[ii].active_set_offset
        position2(ii) == rbs2[ii].active_set_offset
    IN  [kind |-> "ball",
         local_com1 |-> [ii \in Lanes |-> local_com1(ii)],
         local_com2 |-> [ii \in Lanes |-> local_com2(ii)],
         im1 |-> [ii \in Lanes |-> im1(ii)],
         im2 |-> [ii \in Lanes |-> im2(ii)],
         ii1 |-> [ii \in Lanes |-> ii1(ii)],
         ii2 |-> [ii \in Lanes |-> ii2(ii)],
         local_anchor1 |-> [ii \in Lanes |-> local_anchor1(ii)],
         local_anchor2 |-> [ii \in Lanes |-> local_anchor2(ii)],
         position1 |-> [ii \in Lanes |-> position1(ii)],
         position2 |-> [ii \in Lanes |-> position2(ii)]]

\* Mutant of Gather: lane 0's offset broadcast to every lane.
GatherSplat(buf, offsets) == [ii \in Lanes |-> buf[offsets[0]]]
\* Isometry::from(array![|ii| positions[offsets[ii]]; SIMD_WIDTH]): the gather.
Gather(buf, offsets) == [ii \in Lanes |-> buf[offsets[ii]]]

\* for ii in 0..SIMD_WIDTH { positions[offsets[ii]] = wide.extract(ii); }
RECURSIVE ScatterFrom(_, _, _, _)
ScatterFrom(buf, offsets, wide, ii) ==
    IF ii = W THEN buf
    ELSE ScatterFrom([buf EXCEPT ![offsets[ii]] = wide[ii]], offsets, wide, ii + 1)
\* Mutant of Scatter: the lane index used as the buffer index.
ScatterByLane(buf, offsets, wide) ==
    [k \in DOMAIN buf |-> IF k \in Lanes THEN wide[k] ELSE buf[k]]
Scatter(buf, offsets, wide) == ScatterFrom(buf, offsets, wide, 0)

\* lhs of the dim2 build: the effective inverse mass of the pair.
EffectiveMass(im1, im2, cmat1, cmat2, ii1, ii2) ==
    LET m11 == RAdd(RAdd(RAdd(im1, im2), RMul(RMul(cmat1.x, cmat1.x), ii1)),
                    RMul(RMul(cmat2.x, cmat2.x), ii2))
        m12 == RAdd(RMul(RMul(cmat1.x, cmat1.y), ii1),
                    RMul(RMul(cmat2.x, cmat2.y), ii2))
        m22 == RAdd(RAdd(RAdd(im1, im2), RMul(RMul(cmat1.y, cmat1.y), ii1)),
                    RMul(RMul(cmat2.y, cmat2.y), ii2))
    IN  SdpMatrix(m11, m12, m22)

\* Mutants of Impulse: the sign not flipped; joint_erp not applied.
ImpulseNotNegated(inv_lhs, err, joint_erp) == SdpMul(inv_lhs, VScale(err, joint_erp))
ImpulseWithoutErp(inv_lhs, err, joint_erp) == SdpMul(inv_lhs, VNeg(err))
\* impulse = inv_lhs * -(err * splat(joint_erp)).
Impulse(inv_lhs, err, joint_erp) == SdpMul(inv_lhs, VNeg(VScale(err, joint_erp)))

\* Mutant of TranslateBody1: -= in place of +=.
TranslateBody1Subtracted(translation, impulse, im1) ==
    VSub(translation, VScale(impulse, im1))
\* position1.translation.vector += impulse * im1.
TranslateBody1(translation, impulse, im1) == VAdd(translation, VScale(impulse, im1))
\* Mutant of TranslateBody2: += in place of -=.
TranslateBody2Added(translation, impulse, im2) == VAdd(translation, VScale(impulse, im2))
\* position2.translation.vector -= impulse * im2.
TranslateBody2(translation, impulse, im2) == VSub(translation, VScale(impulse, im2))

\* angle1 = ii1.transform_vector(centered_anchor1.gcross(impulse)).
Angle1(ii1, centered_anchor1, impulse) ==
    TransformVector(ii1, GCross(centered_anchor1, impulse))
\* angle2 = ii2.transform_vector(centered_anchor2.gcross(-impulse)).
Angle2(ii2, centered_anchor2, impulse) ==
    TransformVector(ii2, GCross(centered_anchor2, VNeg(impulse)))
\* position.rotation = Rotation::new(angle) * position.rotation.
Rotate(angle, rotation) == RotMul(RotationNew(angle), rotation)

\* The lane arithmetic of WBallPositionConstraint::solve between the gather
\* and the scatter: for every lane, the values the code computes, in the
\* order it computes them, ending with the updated position1 and position2.
BallSolveWide(c, joint_erp, position1, position2) ==
    [ii \in Lanes |->
        LET anchor1 == IsoApply(position1[ii], c.local_anchor1[ii])
            anchor2 == IsoApply(position2[ii], c.local_anchor2[ii])
            com1 == IsoApply(position1[ii], c.local_com1[ii])
            com2 == IsoApply(position2[ii], c.local_com2[ii])
            err == VSub(anchor1, anchor2)
            centered_anchor1 == VSub(anchor1, com1)
            centered_anchor2 == VSub(anchor2, com2)
            cmat1 == GCrossMatrix(centered_anchor1)
            cmat2 == GCrossMatrix(centered_anchor2)
            lhs == EffectiveMass(c.im1[ii], c.im2[ii], cmat1, cmat2,
                                 c.ii1[ii], c.ii2[ii])
            inv_lhs == InverseUnchecked(lhs)
            impulse == Impulse(inv_lhs, err, joint_erp)
            translation1 == TranslateBody1(position1[ii].translation, impulse, c.im1[ii])
            translation2 == TranslateBody2(position2[ii].translation, impulse, c.im2[ii])
            angle1 == Angle1(c.ii1[ii], centered_anchor1, impulse)
            angle2 == Angle2(c.ii2[ii], centered_anchor2, impulse)
            rotation1 == Rotate(angle1, position1[ii].rotation)
            rotation2 == Rotate(angle2, position2[ii].rotation)
        IN  [err |-> err,
             lhs |-> lhs,
             inv_lhs |-> inv_lhs,
             impulse |-> impulse,
             angle1 |-> angle1,
             angle2 |-> angle2,
             position1 |-> Iso(rotation1, translation1),
             position2 |-> Iso(rotation2, translation2)]]

\* Mutant of WBallPositionConstraint::solve: the lanes solved one after the
\* other, each gathering from the buffer the lanes before it have written.
RECURSIVE SolveLaneByLane(_, _, _, _)
SolveLaneByLane(c, joint_erp, buf, ii) ==
    IF ii = W THEN buf
    ELSE LET out == BallSolveWide(c, joint_erp, Gather(buf, c.position1),
                                  Gather(buf, c.position2))[ii]
         IN  SolveLaneByLane(c, joint_erp,
                 [[buf EXCEPT ![c.position1[ii]] = out.position1]
                      EXCEPT ![c.position2[ii]] = out.position2], ii + 1)
WBallPositionConstraint_solve_sequential(c, joint_erp, buf) ==
    SolveLaneByLane(c, joint_erp, buf, 0)

\* WBallPositionConstraint::solve: the position buffer after the call.
WBallPositionConstraint_solve(c, joint_erp, buf) ==
    LET position1 == Gather(buf, c.position1)
        position2 == Gather(buf, c.position2)
        out == BallSolveWide(c, joint_erp, position1, position2)
    IN  Scatter(Scatter(buf, c.position1, [ii \in Lanes |-> out[ii].position1]),
                c.position2, [ii \in Lanes |-> out[ii].position2])

(***************************************************************************)
(* WBallPositionGroundConstraint.                                          *)
(***************************************************************************)
\* The joint's anchor on the fixed body: local_anchor2 if flipped.
FixedLocalAnchor(joint, flipped) ==
    IF flipped THEN joint.local_anchor2 ELSE joint.local_anchor1
\* Mutant of MovableLocalAnchor: the flag ignored.
MovableLocalAnchorUnflipped(joint, flipped) == joint.local_anchor2
\* The joint's anchor on the movable body: local_anchor1 if flipped.
MovableLocalAnchor(joint, flipped) ==
    IF flipped THEN joint.local_anchor1 ELSE joint.local_anchor2

WBallPositionGroundConstraint_from_params(rbs1, rbs2, cparams, flipped) ==
    LET position1(ii) == rbs1[ii].predicted_position
        anchor1(ii) ==
            IsoApply(position1(ii), FixedLocalAnchor(cparams[ii], flipped[ii]))
        im2(ii) == rbs2[ii].inv_mass
        ii2(ii) == Squared(rbs2[ii].world_inv_inertia_sqrt)
        local_anchor2(ii) == MovableLocalAnchor(cparams[ii], flipped[ii])
        position2(ii) == rbs2[ii].active_set_offset
        local_com2(ii) == rbs2[ii].local_com
    IN  [kind |-> "ground",
         anchor1 |-> [ii \in Lanes |-> anchor1(ii)],
         im2 |-> [ii \in Lanes |-> im2(ii)],
         ii2 |-> [ii \in Lanes |-> ii2(ii)],
         local_anchor2 |-> [ii \in Lanes |-> local_anchor2(ii)],
         position2 |-> [ii \in Lanes |-> position2(ii)],
         local_com2 |-> [ii \in Lanes |-> local_com2(ii)]]

\* Mutant of GroundEffectiveMass: the off-diagonal term dropped.
GroundEffectiveMassDiagonal(im2, cmat2, ii2) ==
    SdpMatrix(RAdd(im2, RMul(RMul(cmat2.x, cmat2.x), ii2)), R(0),
              RAdd(im2, RMul(RMul(cmat2.y, cmat2.y), ii2)))
\* lhs of the dim2 build of the ground constraint.
GroundEffectiveMass(im2, cmat2, ii2) ==
    LET m11 == RAdd(im2, RMul(RMul(cmat2.x, cmat2.x), ii2))
        m12 == RMul(RMul(cmat2.x, cmat2.y), ii2)
        m22 == RAdd(im2, RMul(RMul(cmat2.y, cmat2.y), ii2))
    IN  SdpMatrix(m11, m12, m22)

\* The lane arithmetic of WBallPositionGroundConstraint::solve.
GroundSolveWide(g, joint_erp, position2) ==
    [ii \in Lanes |->
        LET anchor2 == IsoApply(position2[ii], g.local_anchor2[ii])
            com2 == IsoApply(position2[ii], g.local_com2[ii])
            err == VSub(g.anchor1[ii], anchor2)
            centered_anchor2 == VSub(anchor2, com2)
            cmat2 == GCrossMatrix(centered_anchor2)
            lhs == GroundEffectiveMass(g.im2[ii], cmat2, g.ii2[ii])
            inv_lhs == InverseUnchecked(lhs)
            impulse == Impulse(inv_lhs, err, joint_erp)
            translation2 == TranslateBody2(position2[ii].translation, impulse, g.im2[ii])
            angle2 == Angle2(g.ii2[ii], centered_anchor2, impulse)
            rotation2 == Rotate(angle2, position2[ii].rotation)
        IN  [err |-> err,
             lhs |-> lhs,
             inv_lhs |-> inv_lhs,
             impulse |-> impulse,
             angle2 |-> angle2,
             position2 |-> Iso(rotation2, translation2)]]

\* WBallPositionGroundConstraint::solve: the position buffer after the call.
WBallPositionGroundConstraint_solve(g, joint_erp, buf) ==
    LET position2 == Gather(buf, g.position2)
        out == GroundSolveWide(g, joint_erp, position2)
    IN  Scatter(buf, g.position2, [ii \in Lanes |-> out[ii].position2])

(***************************************************************************)
(* ContactManifoldData.                                                    *)
(***************************************************************************)
\* SolverFlags: a u32 of bits.
SolverFlags_empty == 0
COMPUTE_IMPULSES == 1
\* RigidBodySet::invalid_handle() and BodyPair::new.
InvalidHandle == [index |-> "invalid"]
BodyPair_new(body1, body2) == [body1 |-> body1, body2 |-> body2]

\* Mutant of min_warmstart_multiplier: the ramp's start value, 0.01.
min_warmstart_multiplier_ramp == <<1, 100>>
min_warmstart_multiplier == R(1)

ContactManifoldData_new(body_pair, solver_flags) ==
    [body_pair |-> body_pair,
     warmstart_multiplier |-> min_warmstart_multiplier,
     constraint_index |-> 0,
     position_constraint_index |-> 0,
     solver_flags |-> solver_flags,
     normal |-> VZero,
     solver_contacts |-> <<>>]

ContactManifoldData_default ==
    ContactManifoldData_new(BodyPair_new(InvalidHandle, InvalidHandle),
                            SolverFlags_empty)

num_active_contacts(self) == Len(self.solver_contacts)

\* ContactData::default(): no impulse yet.
ContactData_default == [impulse |-> R(0), tangent_impulse |-> R(0)]
SolverContact(point, dist, friction) ==
    [point |-> point, dist |-> dist, friction |-> friction,
     restitution |-> R(0), surface_velocity |-> VZero,
     data |-> ContactData_default]

(***************************************************************************)
(* The inputs explored: poses, rigid bodies, ball joints, batches.         *)
(***************************************************************************)
Pt(x, y) == Vec(R(x), R(y))
\* Poses a body may have when the position buffer is filled.
PoseList ==
    <<Iso(RotIdentity, Pt(2, 3)),
      Iso(RotIdentity, Pt(1, 0)),
      Iso(RotIdentity, Pt(0, 0)),
      Iso(RotIdentity, Pt(1, 0)),
      Iso(Rot(R(0), R(1)), Pt(0, 1))>>
\* The buffers explored: the poses of PoseList in order, starting anywhere.
Layouts ==
    {[k \in Offsets |-> PoseList[((k + s) % Len(PoseList)) + 1]] :
        s \in 0 .. (Len(PoseList) - 1)}
\* IntegrationParameters::joint_erp.
ErpSet == {R(0), <<3, 4>>, R(1)}

\* RigidBody, less its offset and pose: MassProperties::inv_mass,
\* world_inv_inertia_sqrt and MassProperties::local_com.
MassProps(inv_mass, inv_inertia_sqrt, local_com) ==
    [inv_mass |-> inv_mass, world_inv_inertia_sqrt |-> inv_inertia_sqrt,
     local_com |-> local_com]
BallJoint(local_anchor1, local_anchor2) ==
    [local_anchor1 |-> local_anchor1, local_anchor2 |-> local_anchor2]
\* The jointed pairs explored.  Body 2 always has a positive inverse mass, so
\* that the effective mass of every lane is positive definite.
LaneKinds ==
    {[b1 |-> MassProps(R(1), R(1), Pt(0, 0)),
      b2 |-> MassProps(R(1), R(1), Pt(0, 0)),
      joint |-> BallJoint(Pt(0, 0), Pt(0, 0))],
     [b1 |-> MassProps(R(0), R(0), Pt(0, 0)),
      b2 |-> MassProps(R(2), R(2), Pt(2, 0)),
      joint |-> BallJoint(Pt(0, 1), Pt(1, 0))],
     [b1 |-> MassProps(R(1), R(0), Pt(0, 0)),
      b2 |-> MassProps(R(2), R(0), Pt(0, 0)),
      joint |-> BallJoint(Pt(1, 0), Pt(0, 0))],
     [b1 |-> MassProps(R(2), R(2), Pt(0, 1)),
      b2 |-> MassProps(R(1), R(1), Pt(0, 0)),
      joint |-> BallJoint(Pt(0, 1), Pt(1, 0))]}
\* The active-set offsets of the two bodies of lane ii, by batch layout.
BatchPlans == {"disjoint", "reversed", "chain", "shared"}
\* The layouts of a ground batch: the movable bodies all different, or all
\* the same one.
GroundBatchPlans == {"disjoint", "shared"}
PlanOffsets(plan, ii) ==
    CASE plan = "disjoint" -> <<2 * ii, 2 * ii + 1>>
      [] plan = "reversed" -> <<2 * ii + 1, 2 * ii>>
      [] plan = "chain" -> <<ii, ii + 1>>
      [] plan = "shared" -> <<ii + 1, 0>>
\* A RigidBody as from_params reads it.
RigidBody(props, offset, pose) ==
    [inv_mass |-> props.inv_mass,
     world_inv_inertia_sqrt |-> props.world_inv_inertia_sqrt,
     local_com |-> props.local_com,
     active_set_offset |-> offset,
     predicted_position |-> pose]

NoConstraint == [kind |-> "none"]
NoManifold == [state |-> "none"]

VARIABLES
    positions,  \* the position buffer: one Isometry per active body
    params,     \* IntegrationParameters
    cons,       \* the constraint object built by from_params, or NoConstraint
    args,       \* the arguments of the from_params call that built cons
    start,      \* the position buffer before the first solve call
    pre,        \* the position buffer before the last solve call
    nsolves,    \* the number of solve calls made
    manifold    \* a ContactManifoldData, or NoManifold

vars == <<positions, params, cons, args, start, pre, nsolves, manifold>>

Init ==
    /\ positions \in Layouts
    /\ params \in {[joint_erp |-> e] : e \in ErpSet}
    /\ cons = NoConstraint
    /\ args = NoConstraint
    /\ start = positions
    /\ pre = positions
    /\ nsolves = 0
    /\ manifold = NoManifold

\* The arguments of a from_params call: the bodies and joints of a batch.
BatchArgs(plan, kinds, flipped) ==
    [rbs1 |-> [ii \in Lanes |->
                  RigidBody(kinds[ii].b1, PlanOffsets(plan, ii)[1],
                            positions[PlanOffsets(plan, ii)[1]])],
     rbs2 |-> [ii \in Lanes |->
                  RigidBody(kinds[ii].b2, PlanOffsets(plan, ii)[2],
                            positions[PlanOffsets(plan, ii)[2]])],
     cparams |-> [ii \in Lanes |-> kinds[ii].joint],
     flipped |-> flipped]

\* WBallPositionConstraint::from_params on a batch of W joints.
BallFromParams ==
    /\ cons = NoConstraint
    /\ \E plan \in BatchPlans, kinds \in [Lanes -> LaneKinds] :
          LET a == BatchArgs(plan, kinds, [ii \in Lanes |-> FALSE])
          IN  /\ args' = a
              /\ cons' = WBallPositionConstraint_from_params(a.rbs1, a.rbs2, a.cparams)
    /\ UNCHANGED <<positions, params, start, pre, nsolves, manifold>>

\* WBallPositionGroundConstraint::from_params on a batch of W joints.
GroundFromParams ==
    /\ cons = NoConstraint
    /\ \E plan \in GroundBatchPlans, kinds \in [Lanes -> LaneKinds],
          flipped \in [Lanes -> BOOLEAN] :
          LET a == BatchArgs(plan, kinds, flipped)
          IN  /\ args' = a
              /\ cons' = WBallPositionGroundConstraint_from_params(
                             a.rbs1, a.rbs2, a.cparams, a.flipped)
    /\ UNCHANGED <<positions, params, start, pre, nsolves, manifold>>

\* Whether every number of a pose is within the magnitudes explored.
SmallReal(r) == Abs(r[1]) <= MaxMagnitude /\ r[2] <= MaxMagnitude
SmallPose(p) ==
    /\ SmallReal(p.rotation.re) /\ SmallReal(p.rotation.im)
    /\ SmallReal(p.translation.x) /\ SmallReal(p.translation.y)
Explored == nsolves < MaxSolves /\ \A k \in Offsets : SmallPose(positions[k])

\* WBallPositionConstraint::solve.
BallSolve ==
    /\ cons.kind = "ball"
    /\ Explored
    /\ positions' = WBallPositionConstraint_solve(cons, params.joint_erp, positions)
    /\ pre' = positions
    /\ nsolves' = nsolves + 1
    /\ UNCHANGED <<params, cons, args, start, manifold>>

\* WBallPositionGroundConstraint::solve.
GroundSolve ==
    /\ cons.kind = "ground"
    /\ Explored
    /\ positions' = WBallPositionGroundConstraint_solve(cons, params.joint_erp, positions)
    /\ pre' = positions
    /\ nsolves' = nsolves + 1
    /\ UNCHANGED <<params, cons, args, start, manifold>>

Next ==
    \/ BallFromParams
    \/ GroundFromParams
    \/ BallSolve
    \/ GroundSolve

Spec == Init /\ [][Next]_vars

(***************************************************************************)
(* The life of a ContactManifoldData: built by new or by default, then     *)
(* filled with solver contacts by the narrow phase.                        *)
(***************************************************************************)
Handles == {[index |-> h] : h \in 0 .. MaxHandle}
SolverContacts ==
    {SolverContact(Pt(0, 0), R(-1), R(1)), SolverContact(Pt(1, 0), R(0), R(0))}
solverVars == <<positions, params, cons, args, start, pre, nsolves>>

\* ContactManifoldData::new(body_pair, solver_flags).
ManifoldNew ==
    /\ \E body1 \in Handles, body2 \in Handles,
          solver_flags \in {SolverFlags_empty, COMPUTE_IMPULSES} :
          manifold' = [state |-> "new",
                       body_pair |-> BodyPair_new(body1, body2),
                       solver_flags |-> solver_flags,
                       data |-> ContactManifoldData_new(
                                    BodyPair_new(body1, body2), solver_flags)]
    /\ UNCHANGED solverVars

\* <ContactManifoldData as Default>::default().
ManifoldDefault ==
    /\ manifold' = [state |-> "default", data |-> ContactManifoldData_default]
    /\ UNCHANGED solverVars

\* The narrow phase appends a solver contact to the public solver_contacts.
PushSolverContact ==
    /\ manifold.state # "none"
    /\ Len(manifold.data.solver_contacts) < MaxContacts
    /\ \E contact \in SolverContacts :
          manifold' = [state |-> "filled",
                       data |-> [manifold.data EXCEPT
                                    !.solver_contacts = Append(@, contact)]]
    /\ UNCHANGED solverVars

NextManifold ==
    \/ ManifoldNew
    \/ ManifoldDefault
    \/ PushSolverContact

SpecManifold == Init /\ [][NextManifold]_vars

(***************************************************************************)
(* Properties.                                                             *)
(***************************************************************************)
IsBall == cons.kind = "ball"
IsGround == cons.kind = "ground"
Solved == nsolves > 0
Erp == params.joint_erp
\* The buffer slots a solve call of cons may write.
TouchedSlots ==
    IF IsBall
    THEN {cons.position1[ii] : ii \in Lanes} \cup {cons.position2[ii] : ii \in Lanes}
    ELSE IF IsGround THEN {cons.position2[ii] : ii \in Lanes} ELSE {}
\* No two lanes of the ball constraint reference the same offset.
DisjointLanes == Cardinality(TouchedSlots) = 2 * W
\* Lane i of the ball constraint shares no body with another lane.
SingleJoint(i) ==
    /\ cons.position1[i] # cons.position2[i]
    /\ \A j \in Lanes \ {i} :
          {cons.position1[j], cons.position2[j]}
              \cap {cons.position1[i], cons.position2[i]} = {}
\* The lane values a ball solve call computes from buffer buf.
BallOut(buf) ==
    BallSolveWide(cons, Erp, Gather(buf, cons.position1), Gather(buf, cons.position2))
\* world anchor 1 minus world anchor 2 of lane i of the ball constraint.
ErrOf(buf, i) ==
    VSub(IsoApply(buf[cons.position1[i]], cons.local_anchor1[i]),
         IsoApply(buf[cons.position2[i]], cons.local_anchor2[i]))
\* The last lane whose offset is k: the one whose scatter stays.
LastWriter(offsets, k) ==
    CHOOSE i \in Lanes : offsets[i] = k /\ \A j \in Lanes : offsets[j] = k => j <= i

\* C1 (batch independence): after a solve of a ball batch in which no two
\* lanes reference the same offset, the two poses of every lane are those a
\* solve of that lane's joint alone (a batch padded with that one joint)
\* writes from the same starting buffer.
C1_BatchIndependence ==
    (IsBall /\ Solved /\ DisjointLanes) =>
        \A i \in Lanes :
            LET alone == WBallPositionConstraint_from_params(
                             [ii \in Lanes |-> args.rbs1[i]],
                             [ii \in Lanes |-> args.rbs2[i]],
                             [ii \in Lanes |-> args.cparams[i]])
                res == WBallPositionConstraint_solve(alone, Erp, pre)
            IN  /\ positions[cons.position1[i]] = res[cons.position1[i]]
                /\ positions[cons.position2[i]] = res[cons.position2[i]]

\* A disjoint batch of joints of different kinds, every lane of which moved.
C1_Witness ==
    /\ IsBall /\ Solved /\ DisjointLanes
    /\ \E i, j \in Lanes : args.rbs2[i].inv_mass # args.rbs2[j].inv_mass
    /\ \A i \in Lanes :
          /\ positions[cons.position1[i]] # pre[cons.position1[i]]
          /\ positions[cons.position2[i]] # pre[cons.position2[i]]

\* C2 (frame of solve): a solve call changes the buffer only at the slots
\* named by position1 and position2 (ball) or by position2 (ground); the
\* other slots, the buffer's length, the constraint object and the
\* integration parameters are unchanged.
C2_Frame ==
    [][(nsolves' = nsolves + 1) =>
          /\ DOMAIN positions' = DOMAIN positions
          /\ \A k \in Offsets \ TouchedSlots : positions'[k] = positions[k]
          /\ cons' = cons
          /\ params' = params]_vars

\* A ground solve that moved a movable body and left the fixed bodies' and
\* every other slot as they were.
C2_Witness ==
    /\ IsGround /\ Solved
    /\ \E i \in Lanes : positions[cons.position2[i]] # pre[cons.position2[i]]
    /\ \E i \in Lanes : args.rbs1[i].active_set_offset \notin TouchedSlots
    /\ \A k \in Offsets \ TouchedSlots : positions[k] = pre[k]

\* The buffer after n solve calls of the ball constraint from buffer buf.
RECURSIVE SolveTimes(_, _)
SolveTimes(n, buf) ==
    IF n = 0 THEN buf
    ELSE WBallPositionConstraint_solve(cons, Erp, SolveTimes(n - 1, buf))

\* C3 (lane simultaneity, call ordering): after a ball solve every slot holds
\* the pose its last writing lane computed from the buffer as it was when the
\* call started (position2 written after position1), also when lanes share
\* an offset; and the buffer a call starts from is the one the calls before
\* it have written.
C3_Simultaneity ==
    (IsBall /\ Solved) =>
        /\ LET out == BallOut(pre)
           IN  \A k \in Offsets :
                  positions[k] =
                      IF \E i \in Lanes : cons.position2[i] = k
                      THEN out[LastWriter(cons.position2, k)].position2
                      ELSE IF \E i \in Lanes : cons.position1[i] = k
                           THEN out[LastWriter(cons.position1, k)].position1
                           ELSE pre[k]
        /\ pre = SolveTimes(nsolves - 1, start)

\* Two calls on a batch whose lanes share a body, both of which moved it.
C3_Witness ==
    /\ IsBall /\ nsolves = 2
    /\ \E i, j \in Lanes : i < j /\ cons.position2[i] = cons.position1[j]
                           /\ pre[cons.position2[i]] # start[cons.position2[i]]
                           /\ positions[cons.position2[i]] # pre[cons.position2[i]]

\* joint_erp strictly between 0 and 1.
ErpInside == RLt(R(0), Erp) /\ RLt(Erp, R(1))

\* Whether the error of lane i in buffer buf is small enough for its squared
\* norm to be compared within the range of the integers.
Comparable(v) ==
    /\ Abs(v.x[1]) <= MaxComparable /\ v.x[2] <= MaxComparable
    /\ Abs(v.y[1]) <= MaxComparable /\ v.y[2] <= MaxComparable
Measurable(buf, i) ==
    /\ SmallPose(buf[cons.position1[i]]) /\ SmallPose(buf[cons.position2[i]])
    /\ Comparable(ErrOf(buf, i))

\* C4 as stated (convergence): for a single ball joint solved with joint_erp
\* strictly between 0 and 1, the magnitude of the positional error after a
\* call is at most its magnitude before the call.
C4_ErrorNeverGrows ==
    (IsBall /\ Solved /\ ErpInside) =>
        \A i \in Lanes :
            (SingleJoint(i) /\ Measurable(pre, i) /\ Measurable(positions, i)) =>
                RLeq(NormSquared(ErrOf(positions, i)), NormSquared(ErrOf(pre, i)))

\* Lane i of the ball constraint gets no rotational correction: each body has
\* a zero inverse inertia or its anchor at its centre of mass.
NoLever(i) ==
    /\ cons.ii1[i] = R(0) \/ cons.local_anchor1[i] = cons.local_com1[i]
    /\ cons.ii2[i] = R(0) \/ cons.local_anchor2[i] = cons.local_com2[i]

RECURSIVE RPow(_, _)
RPow(a, n) == IF n = 0 THEN R(1) ELSE RMul(a, RPow(a, n - 1))

\* C4 as amended: for a single ball joint each of whose bodies has a zero
\* inverse inertia or its anchor at its centre of mass, solved with joint_erp
\* strictly between 0 and 1, every call multiplies the positional error by
\* 1 - joint_erp: its magnitude never grows and after n calls it is
\* (1 - joint_erp)^n times the first one.
C4_ErrorShrinksWithoutLever ==
    (IsBall /\ Solved /\ ErpInside) =>
        \A i \in Lanes :
            (SingleJoint(i) /\ NoLever(i)) =>
                /\ ErrOf(positions, i) = VScale(ErrOf(pre, i), RSub(R(1), Erp))
                /\ RLeq(NormSquared(ErrOf(positions, i)), NormSquared(ErrOf(pre, i)))
                /\ ErrOf(positions, i) =
                       VScale(ErrOf(start, i), RPow(RSub(R(1), Erp), nsolves))

\* Two calls on a single joint without lever arm that started off its rest
\* position.
C4_Witness ==
    /\ IsBall /\ nsolves = 2 /\ ErpInside
    /\ \E i \in Lanes :
          /\ SingleJoint(i) /\ NoLever(i)
          /\ ErrOf(start, i) # VZero
          /\ cons.local_anchor1[i] # cons.local_com1[i]

\* The fixed bodies of the ground batch are not movable bodies of it, and
\* their poses in buffer buf are the predicted poses the batch was built from.
FixedBodiesAsPredicted(buf) ==
    /\ \A i, j \in Lanes :
          args.rbs1[i].active_set_offset # args.rbs2[j].active_set_offset
    /\ \A i \in Lanes :
          buf[args.rbs1[i].active_set_offset] = args.rbs1[i].predicted_position

\* The ball constraint of the same joints and movable bodies, body 1 of every
\* lane having inverse mass 0 and inverse inertia 0.
GeneralOfGround ==
    WBallPositionConstraint_from_params(
        [ii \in Lanes |-> [args.rbs1[ii] EXCEPT !.inv_mass = R(0),
                                              !.world_inv_inertia_sqrt = R(0)]],
        args.rbs2,
        [ii \in Lanes |->
            BallJoint(FixedLocalAnchor(args.cparams[ii], args.flipped[ii]),
                      MovableLocalAnchor(args.cparams[ii], args.flipped[ii]))])

\* C5 (ground-case reduction): the pose a ground solve writes for body 2 is
\* the one the ball solve writes for it from the same buffer when body 1 has
\* inverse mass 0 and inverse inertia 0 and its pose in the buffer is the
\* predicted pose; that ball solve leaves body 1's pose unchanged.
C5_GroundReduction ==
    (IsGround /\ Solved /\ FixedBodiesAsPredicted(pre)) =>
        LET general == WBallPositionConstraint_solve(GeneralOfGround, Erp, pre)
        IN  \A i \in Lanes :
               /\ general[cons.position2[i]] = positions[cons.position2[i]]
               /\ general[args.rbs1[i].active_set_offset]
                      = pre[args.rbs1[i].active_set_offset]

\* A ground solve that turned a movable body, with a flipped lane.
C5_Witness ==
    /\ IsGround /\ Solved /\ FixedBodiesAsPredicted(pre)
    /\ \E i \in Lanes :
          /\ args.flipped[i]
          /\ positions[cons.position2[i]].rotation # pre[cons.position2[i]].rotation
          /\ positions[cons.position2[i]].translation
                 # pre[cons.position2[i]].translation

\* Lane i joins two bodies of inverse mass 1 and inverse inertia 1 with the
\* anchors and the centres of mass at the local origins.
UnitLane(i) ==
    /\ cons.im1[i] = R(1) /\ cons.im2[i] = R(1)
    /\ cons.ii1[i] = R(1) /\ cons.ii2[i] = R(1)
    /\ cons.local_anchor1[i] = VZero /\ cons.local_anchor2[i] = VZero
    /\ cons.local_com1[i] = VZero /\ cons.local_com2[i] = VZero
\* In buffer buf the bodies of lane i are not rotated and are 1 unit apart
\* along one axis.
UnitApart(buf, i) ==
    /\ buf[cons.position1[i]].rotation = RotIdentity
    /\ buf[cons.position2[i]].rotation = RotIdentity
    /\ VSub(buf[cons.position1[i]].translation, buf[cons.position2[i]].translation)
           \in {Pt(1, 0), Pt(-1, 0), Pt(0, 1), Pt(0, -1)}
Midpoint(u, v) == VScale(VAdd(u, v), <<1, 2>>)

\* C6 (full correction at ERP = 1): one ball solve with joint_erp = 1 of two
\* unit bodies 1 unit apart along an axis, anchors and centres of mass at the
\* local origins, leaves the world anchors coincident, each body moved half
\* the gap toward the other and no rotation changed.
C6_FullCorrection ==
    (IsBall /\ Solved /\ Erp = R(1)) =>
        \A i \in Lanes :
            (SingleJoint(i) /\ UnitLane(i) /\ UnitApart(pre, i)) =>
                LET mid == Midpoint(pre[cons.position1[i]].translation,
                                    pre[cons.position2[i]].translation)
                IN  /\ ErrOf(positions, i) = VZero
                    /\ positions[cons.position1[i]] = Iso(RotIdentity, mid)
                    /\ positions[cons.position2[i]] = Iso(RotIdentity, mid)

C6_Witness ==
    /\ IsBall /\ nsolves = 1 /\ Erp = R(1)
    /\ \E i \in Lanes : SingleJoint(i) /\ UnitLane(i) /\ UnitApart(pre, i)

\* C7 (impulse conservation): in every lane of a ball solve body 1 is
\* translated by +impulse * im1 and body 2 by -impulse * im2 for the same
\* impulse, so im2 * (change of body 1) + im1 * (change of body 2) = 0, and
\* with equal inverse masses the two changes are negations of each other.
C7_ImpulseConservation ==
    (IsBall /\ Solved) =>
        \A i \in Lanes :
            SingleJoint(i) =>
                LET impulse == BallOut(pre)[i].impulse
                    change1 == VSub(positions[cons.position1[i]].translation,
                                    pre[cons.position1[i]].translation)
                    change2 == VSub(positions[cons.position2[i]].translation,
                                    pre[cons.position2[i]].translation)
                IN  /\ change1 = VScale(impulse, cons.im1[i])
                    /\ change2 = VNeg(VScale(impulse, cons.im2[i]))
                    /\ VAdd(VScale(change1, cons.im2[i]),
                            VScale(change2, cons.im1[i])) = VZero
                    /\ cons.im1[i] = cons.im2[i] => change1 = VNeg(change2)

\* A solve that moved two bodies of equal inverse mass, and one that moved
\* two bodies of different non-zero inverse masses.
C7_Witness ==
    /\ IsBall /\ Solved
    /\ \E i \in Lanes :
          /\ SingleJoint(i) /\ cons.im1[i] = cons.im2[i]
          /\ positions[cons.position1[i]].translation
                 # pre[cons.position1[i]].translation
    /\ \E i \in Lanes :
          /\ SingleJoint(i) /\ cons.im1[i] # cons.im2[i] /\ cons.im1[i] # R(0)
          /\ positions[cons.position1[i]].translation
                 # pre[cons.position1[i]].translation

\* The joints of the ground batch with the two anchors of every lane of set
\* swapped, and the flags with those lanes toggled.
SwappedJoints(swapped) ==
    [ii \in Lanes |->
        IF ii \in swapped
        THEN BallJoint(args.cparams[ii].local_anchor2, args.cparams[ii].local_anchor1)
        ELSE args.cparams[ii]]
ToggledFlags(swapped) ==
    [ii \in Lanes |-> IF ii \in swapped THEN ~args.flipped[ii] ELSE args.flipped[ii]]

\* C8 (flip invariance): building the ground constraint with lane i's flag
\* toggled and lane i's joint anchors swapped builds the same object (the
\* same fixed world anchor and movable local anchor in lane i, every other
\* lane untouched); so does toggling and swapping every lane, and the solve
\* of that object writes the same poses.
C8_FlipInvariance ==
    IsGround =>
        /\ \A i \in Lanes :
              WBallPositionGroundConstraint_from_params(
                  args.rbs1, args.rbs2, SwappedJoints({i}), ToggledFlags({i})) = cons
        /\ Solved =>
              WBallPositionGroundConstraint_solve(
                  WBallPositionGroundConstraint_from_params(
                      args.rbs1, args.rbs2, SwappedJoints(Lanes), ToggledFlags(Lanes)),
                  Erp, pre) = positions

\* A solved ground batch with a flipped and an unflipped lane, whose joints
\* have two different anchors.
C8_Witness ==
    /\ IsGround /\ Solved /\ positions # pre
    /\ \E i, j \in Lanes :
          /\ args.flipped[i] /\ ~args.flipped[j]
          /\ args.cparams[i].local_anchor1 # args.cparams[i].local_anchor2
          /\ args.cparams[j].local_anchor1 # args.cparams[j].local_anchor2

\* C9 (warm-start defaults): a ContactManifoldData built by new or by default
\* has warmstart_multiplier equal to min_warmstart_multiplier(), which is 1.0
\* and inside [0,1], no solver contact and num_active_contacts() = 0; the
\* default one has the invalid body pair and empty solver flags; and
\* num_active_contacts() is always the length of solver_contacts.
C9_WarmStartDefaults ==
    /\ manifold.state \in {"new", "default"} =>
          /\ manifold.data.warmstart_multiplier = min_warmstart_multiplier
          /\ manifold.data.warmstart_multiplier = R(1)
          /\ RLeq(R(0), manifold.data.warmstart_multiplier)
          /\ RLeq(manifold.data.warmstart_multiplier, R(1))
          /\ manifold.data.solver_contacts = <<>>
          /\ num_active_contacts(manifold.data) = 0
    /\ manifold.state = "default" =>
          /\ manifold.data.body_pair = BodyPair_new(InvalidHandle, InvalidHandle)
          /\ manifold.data.solver_flags = SolverFlags_empty
    /\ manifold.state # "none" =>
          num_active_contacts(manifold.data) = Len(manifold.data.solver_contacts)

\* A manifold just built by new for two different bodies, with
\* COMPUTE_IMPULSES set.
C9_Witness ==
    /\ manifold.state = "new"
    /\ manifold.solver_flags = COMPUTE_IMPULSES
    /\ manifold.body_pair.body1 # manifold.body_pair.body2

\* anchor1 minus world anchor 2 of lane i of the ground constraint.
GroundErrOf(buf, i) ==
    VSub(cons.anchor1[i], IsoApply(buf[cons.position2[i]], cons.local_anchor2[i]))
\* The lane values a ground solve call computes from buffer buf.
GroundOut(buf) == GroundSolveWide(cons, Erp, Gather(buf, cons.position2))
\* Lane i asks for no correction from buffer buf: its anchors coincide, or
\* joint_erp is 0.
BallAtRest(buf, i) == ErrOf(buf, i) = VZero \/ Erp = R(0)
GroundAtRest(buf, i) == GroundErrOf(buf, i) = VZero \/ Erp = R(0)
\* No other lane of the ground constraint moves the body of lane i.
GroundSingleJoint(i) ==
    \A j \in Lanes \ {i} : cons.position2[j] # cons.position2[i]

\* C10 (rest state is a fixed point): in a lane whose anchors coincide before
\* the call, or when joint_erp is 0, the ball solve and the ground solve
\* compute a zero impulse and the poses they write back for the lane are the
\* poses gathered; when no other lane writes them, the buffer holds the same
\* poses after the call, and when every lane is at rest the call leaves the
\* whole buffer unchanged.
C10_RestIsFixedPoint ==
    /\ (IsBall /\ Solved) =>
          LET out == BallOut(pre)
          IN  /\ \A i \in Lanes :
                    BallAtRest(pre, i) =>
                        /\ out[i].impulse = VZero
                        /\ out[i].position1 = pre[cons.position1[i]]
                        /\ out[i].position2 = pre[cons.position2[i]]
                        /\ SingleJoint(i) =>
                              /\ positions[cons.position1[i]] = pre[cons.position1[i]]
                              /\ positions[cons.position2[i]] = pre[cons.position2[i]]
              /\ (\A i \in Lanes : BallAtRest(pre, i)) => positions = pre
    /\ (IsGround /\ Solved) =>
          LET out == GroundOut(pre)
          IN  /\ \A i \in Lanes :
                    GroundAtRest(pre, i) =>
                        /\ out[i].impulse = VZero
                        /\ out[i].position2 = pre[cons.position2[i]]
                        /\ GroundSingleJoint(i) =>
                              positions[cons.position2[i]] = pre[cons.position2[i]]
              /\ (\A i \in Lanes : GroundAtRest(pre, i)) => positions = pre

\* Two ball solve calls with a non-zero joint_erp on a batch of which a lane
\* joining bodies of different masses was at rest and stayed there while
\* another lane moved.
C10_Witness ==
    /\ IsBall /\ nsolves = 2 /\ Erp # R(0) /\ positions # pre
    /\ \E i \in Lanes :
          /\ SingleJoint(i) /\ cons.im1[i] # cons.im2[i]
          /\ ErrOf(start, i) = VZero /\ ErrOf(positions, i) = VZero
====
